---- MODULE Spec2Model ----
(***************************************************************************)
(* Blood-bank backend: donation recording (eligibility, reward            *)
(* progression), blood-request matching and the donor-response list.      *)
(*                                                                         *)
(* Time is counted in whole days; day 0 is January 1st of EpochYear.      *)
(* Every handler is cut at its awaits: one action per storage call, with  *)
(* the synchronous code that follows it up to the next await.             *)
(***************************************************************************)
EXTENDS Integers, Sequences, FiniteSets, TLC

VARIABLES
  now,          \* the clock (Date.now()), in days
  donations,    \* the Donation collection, in insertion order
  users,        \* the User collection: user id -> document
  inventory,    \* bloodInventory[group].units of the one blood bank
  handlers,     \* donation handlers in flight: slot -> position and locals
  requests,     \* the BloodRequest collection, in insertion order
  responders,   \* respond handlers in flight: slot -> position and locals
  event,        \* what the step just taken did: the query it ran, the update
                \* it wrote, the response it sent
  arg,          \* input of a helper function applied on its own
  out,          \* its result
  server,       \* the server process: its database connection, the retry
                \* counter of connectDB, the sockets and the rooms they joined
  chat          \* the support chat of one user: its messages, each with its
                \* sender and its readBy list

vars == <<now, donations, users, inventory, handlers, requests, responders,
          event, arg, out, server, chat>>

-----------------------------------------------------------------------------
(* Bounds of the model *)

MaxDay == 91
MaxDonations == 2
NumHandlers == 2
MaxCount == 60
MaxRequests == 1
NumResponders == 2
EpochYear == 2024

-----------------------------------------------------------------------------
(* JavaScript numbers: a non-integer result is kept as a reduced fraction  *)
(* <<numerator, denominator>>, so that equal values are equal tuples.      *)

RECURSIVE GCD(_, _)
GCD(a, b) == IF b = 0 THEN a ELSE GCD(b, a % b)

Abs(x) == IF x < 0 THEN 0 - x ELSE x

Frac(a, b) ==
  LET g == GCD(Abs(a), b) IN <<a \div g, b \div g>>

FMul(f, k) == Frac(f[1] * k, f[2])

FLeq(f, g) == f[1] * g[2] <= g[1] * f[2]

FMin(f, g) == IF FLeq(f, g) THEN f ELSE g

-----------------------------------------------------------------------------
(* Level and level progress *)

calculateUserLevel_strict(donationCount) ==
  IF donationCount >= 50 THEN "Platinum"
  ELSE IF donationCount >= 25 THEN "Gold"
  ELSE IF donationCount > 10 THEN "Silver"
  ELSE "Bronze"

calculateUserLevel(donationCount) ==
  IF donationCount >= 50 THEN "Platinum"
  ELSE IF donationCount >= 25 THEN "Gold"
  ELSE IF donationCount >= 10 THEN "Silver"
  ELSE "Bronze"

calculateLevelProgress(donationCount) ==
  IF donationCount >= 50 THEN Frac(100, 1)
  ELSE IF donationCount >= 25
    THEN FMin(FMul(Frac(donationCount - 25, 25), 100), Frac(100, 1))
  ELSE IF donationCount >= 10
    THEN FMin(FMul(Frac(donationCount - 10, 15), 100), Frac(100, 1))
  ELSE FMin(FMul(Frac(donationCount, 10), 100), Frac(100, 1))

\* a / b for an integer b # 0
Div(a, b) == IF b < 0 THEN Frac(0 - a, 0 - b) ELSE Frac(a, b)

\* LEVELS of the rewards router; donationsNeeded: null is 0 in arithmetic
LEVELS ==
  [Bronze |-> [next |-> "Silver", donationsNeeded |-> 10],
   Silver |-> [next |-> "Gold", donationsNeeded |-> 25],
   Gold |-> [next |-> "Platinum", donationsNeeded |-> 50],
   Platinum |-> [next |-> "none", donationsNeeded |-> 0]]

\* calculateLevelProgress(donationCount, currentLevel) of the rewards router
calculateLevelProgressOf(donationCount, currentLevel) ==
  LET level == LEVELS[currentLevel]
  IN  IF level.next = "none" THEN Frac(100, 1)
      ELSE LET nextLevel == LEVELS[level.next]
           IN  FMin(FMul(Div(donationCount - level.donationsNeeded,
                             nextLevel.donationsNeeded - level.donationsNeeded),
                         100),
                    Frac(100, 1))

\* The same computation as the second donation router writes it inline.
UpdateLevelInline(donationCount) ==
  IF donationCount >= 50
    THEN [level |-> "Platinum", levelProgress |-> Frac(100, 1)]
  ELSE IF donationCount >= 25
    THEN [level |-> "Gold",
          levelProgress |->
            FMin(FMul(Frac(donationCount - 25, 25), 100), Frac(100, 1))]
  ELSE IF donationCount >= 10
    THEN [level |-> "Silver",
          levelProgress |->
            FMin(FMul(Frac(donationCount - 10, 15), 100), Frac(100, 1))]
  ELSE [level |-> "Bronze",
        levelProgress |->
          FMin(FMul(Frac(donationCount, 10), 100), Frac(100, 1))]

-----------------------------------------------------------------------------
(* Dates: new Date(), getMonth(), setMonth() on day numbers                *)

IsLeap(y) == (y % 4 = 0 /\ y % 100 # 0) \/ y % 400 = 0

YearLen(y) == IF IsLeap(y) THEN 366 ELSE 365

RECURSIVE DaysBeforeYear(_)
DaysBeforeYear(y) ==
  IF y = EpochYear THEN 0
  ELSE IF y > EpochYear THEN DaysBeforeYear(y - 1) + YearLen(y - 1)
  ELSE DaysBeforeYear(y + 1) - YearLen(y)

CumDays == <<0, 31, 59, 90, 120, 151, 181, 212, 243, 273, 304, 334>>

\* m is a JavaScript month number, 0..11
DaysBeforeMonth(y, m) ==
  CumDays[m + 1] + (IF IsLeap(y) /\ m >= 2 THEN 1 ELSE 0)

\* new Date(y, m, d): a month outside 0..11 carries into the year, a day
\* past the end of the month carries into the next month.
FromYMD(y, m, d) ==
  LET yy == y + (m \div 12)
      mm == m % 12
  IN  DaysBeforeYear(yy) + DaysBeforeMonth(yy, mm) + d - 1

YearOf(t) ==
  CHOOSE y \in (EpochYear - 3)..(EpochYear + 3) :
    DaysBeforeYear(y) <= t /\ t < DaysBeforeYear(y + 1)

MonthOf(t) ==
  LET y == YearOf(t)
      r == t - DaysBeforeYear(y)
  IN  CHOOSE m \in 0..11 :
        /\ DaysBeforeMonth(y, m) <= r
        /\ (m = 11 \/ r < DaysBeforeMonth(y, m + 1))

DateOf(t) ==
  t - DaysBeforeYear(YearOf(t)) - DaysBeforeMonth(YearOf(t), MonthOf(t)) + 1

\* d.setMonth(d.getMonth() + k)
SetMonthPlus(t, k) == FromYMD(YearOf(t), MonthOf(t) + k, DateOf(t))

\* 90 * 24 * 60 * 60 * 1000 ms
NinetyDays == 90

\* a Date field that is not set
NoDate == 0 - 100000

-----------------------------------------------------------------------------
(* Documents *)

Range(s) == {s[i] : i \in 1..Len(s)}

BloodGroups == {"A+", "A-", "B+", "B-", "AB+", "AB-", "O+", "O-"}

Users == {"u1", "u2", "admin"}

Donors == {"u1", "u2"}

Banks == {"b1"}

\* a User document as registration leaves it
NewUser(id) ==
  [isAdmin |-> (id = "admin"), isDonor |-> TRUE, bloodGroup |-> "O+", loc |-> 0,
   lastDonation |-> NoDate, donationCount |-> 0, rewardPoints |-> 0,
   livesImpacted |-> 0, streak |-> 0, nextEligibleDate |-> NoDate,
   level |-> "Bronze", levelProgress |-> Frac(0, 1), badges |-> <<>>,
   deleted |-> FALSE]

\* the place of a user document that was deleted
Gone == [NewUser("none") EXCEPT !.deleted = TRUE, !.isDonor = FALSE]

\* User.findById(id) finds nothing
Absent(id) == IF id \in Users THEN users[id].deleted ELSE TRUE

Handlers == 1..NumHandlers

\* the stored state a request found when it arrived
NoBase == [donations |-> 0, user |-> NewUser("none"), inventory |-> <<>>]

IdleHandler ==
  [pc |-> "idle", user |-> "none", date |-> NoDate, units |-> 0,
   bloodGroup |-> "none", local |-> NewUser("none"), doc |-> NewUser("none"),
   checked |-> FALSE, delta |-> 0, base |-> NoBase]

\* no eligibility query / progression update / donor query in this step
NoCheck == [donor |-> "none", proposed |-> NoDate, prior |-> {}, eligible |-> TRUE]

NoApply ==
  [user |-> "none", date |-> NoDate, before |-> NewUser("none"),
   after |-> NewUser("none"), checked |-> FALSE]

NoMatch == [urgency |-> "none", bloodGroup |-> "none", loc |-> 0, donors |-> {}]

NoRequest ==
  [requester |-> "none", bloodGroup |-> "none", urgency |-> "none",
   status |-> "none", loc |-> 0, donors |-> <<>>, donorsResponded |-> 0]

\* no inventory write in this step
NoInv == [group |-> "none", delta |-> 0, before |-> 0, after |-> 0]

NoEvent ==
  [op |-> "none", user |-> "none", resp |-> "none", check |-> NoCheck,
   apply |-> NoApply, match |-> NoMatch, request |-> 0, listed |-> FALSE,
   before |-> NoRequest, status |-> "none", inv |-> NoInv, base |-> NoBase]

-----------------------------------------------------------------------------
(* Donation recording: shared pieces *)

\* what a donation request body may carry
BackOffsets == {0, 100}

UnitChoices == {1, 6}

GroupChoices == {"O+", "none"}

BankChoices == {"b1", "b9"}

DonationInputs(t) ==
  [date : {t - o : o \in BackOffsets} \cup {t + 1},
   units : UnitChoices, bloodGroup : GroupChoices, bank : BankChoices]

\* the Donation schema's validators, run by donation.save()
DonationSchemaValid(in) == in.bloodGroup \in BloodGroups /\ in.units >= 1

\* new Donation({...req.body, donor}): the status is the schema's default and
\* the status history is empty
NewDonation(u, in, status) ==
  [donor |-> u, date |-> in.date, status |-> status, units |-> in.units,
   bloodGroup |-> in.bloodGroup, bank |-> in.bank, statusHistory |-> <<>>]

\* donationSchema.pre('save'): a save that modified the status pushes it on
\* the status history
PreSaveStatus(donation, modified) ==
  IF modified
    THEN [donation EXCEPT !.statusHistory = Append(@, donation.status)]
    ELSE donation

DonationStatuses == {"pending", "approved", "completed", "rejected", "cancelled"}

\* Donation.findOne({donor, [status,] donationDate: {$gte: now - 90 days}})
FindRecent(u, t, statuses) ==
  {i \in 1..Len(donations) :
     /\ donations[i].donor = u
     /\ donations[i].status \in statuses
     /\ donations[i].date >= t - NinetyDays}

DonationsOf(u) == {i \in 1..Len(donations) : donations[i].donor = u}

PriorDates(u) == {donations[i].date : i \in DonationsOf(u)}

AddBadge(badges, b) == IF b \in Range(badges) THEN badges ELSE Append(badges, b)

RECURSIVE Dedup(_)
Dedup(s) ==
  IF s = <<>> THEN <<>>
  ELSE AddBadge(Dedup(SubSeq(s, 1, Len(s) - 1)), s[Len(s)])

\* updateUserBadges: Array.from(new Set(badges) plus the badges earned)
updateUserBadges(user) ==
  LET b0 == AddBadge(Dedup(user.badges), "First Donation")
      b1 == IF user.donationCount >= 5 THEN AddBadge(b0, "Regular Donor") ELSE b0
      b2 == IF user.livesImpacted >= 50 THEN AddBadge(b1, "Life Saver") ELSE b1
  IN  [user EXCEPT !.badges = b2]

\* the inline variant: push each earned badge the array does not include
PushBadges(user) ==
  LET b0 == AddBadge(user.badges, "First Donation")
      b1 == IF user.donationCount >= 5 THEN AddBadge(b0, "Regular Donor") ELSE b0
      b2 == IF user.livesImpacted >= 50 THEN AddBadge(b1, "Life Saver") ELSE b1
  IN  [user EXCEPT !.badges = b2]

\* "Update user stats" of the validated donation router, on the document as
\* read, for a donation dated date, run at time t.
UpdateUserStats(user, date, t) ==
  LET u1 == [user EXCEPT !.lastDonation = date,
                         !.donationCount = @ + 1,
                         !.rewardPoints = @ + 100,
                         !.livesImpacted = @ + 3]
      threeMonthsAgo == SetMonthPlus(t, 0 - 3)
      u2 == IF u1.lastDonation >= threeMonthsAgo
              THEN [u1 EXCEPT !.streak = @ + 1,
                              !.rewardPoints = @ + (u1.streak + 1) * 10]
              ELSE [u1 EXCEPT !.streak = 1]
      u3 == [u2 EXCEPT !.nextEligibleDate = SetMonthPlus(date, 3),
                       !.level = calculateUserLevel(u2.donationCount),
                       !.levelProgress = calculateLevelProgress(u2.donationCount)]
  IN  updateUserBadges(u3)

\* the same block of the unvalidated donation router
UpdateUserStatsInline(user, date, t) ==
  LET u1 == [user EXCEPT !.lastDonation = date,
                         !.donationCount = @ + 1,
                         !.rewardPoints = @ + 100,
                         !.livesImpacted = @ + 3]
      threeMonthsAgo == SetMonthPlus(t, 0 - 3)
      u2 == IF u1.lastDonation >= threeMonthsAgo
              THEN [u1 EXCEPT !.streak = @ + 1,
                              !.rewardPoints = @ + (u1.streak + 1) * 10]
              ELSE [u1 EXCEPT !.streak = 1]
      lv == UpdateLevelInline(u2.donationCount)
      u3 == [u2 EXCEPT !.nextEligibleDate = SetMonthPlus(date, 3),
                       !.level = lv.level,
                       !.levelProgress = lv.levelProgress]
  IN  PushBadges(u3)

\* user.save(): every path whose value the handler changed is $set to the
\* handler's value; the other paths keep what the store holds.
SaveSet(stored, local, doc) ==
  [f \in DOMAIN stored |->
     IF doc[f] # local[f] THEN doc[f] ELSE stored[f]]

\* user.save() after badges.push(...): scalars as above, the pushed badges
\* are appended ($push) to the array the store holds.
SavePush(stored, local, doc) ==
  [f \in DOMAIN stored |->
     IF f = "badges"
       THEN stored.badges \o SubSeq(doc.badges, Len(local.badges) + 1, Len(doc.badges))
       ELSE IF doc[f] # local[f] THEN doc[f] ELSE stored[f]]

Finish(h) == handlers' = [handlers EXCEPT ![h] = IdleHandler]

Goto(h, pc) == handlers' = [handlers EXCEPT ![h].pc = pc]

Snapshot(u) ==
  [donations |-> Len(donations), user |-> users[u], inventory |-> inventory]

Begin(h, u, in, pc) ==
  handlers' = [handlers EXCEPT ![h] =
    [IdleHandler EXCEPT !.pc = pc, !.user = u, !.date = in.date,
       !.units = in.units, !.bloodGroup = in.bloodGroup,
       !.base = Snapshot(u)]]

\* a handler that goes on after its eligibility query found nothing
BeginChecked(h, u, in, pc) ==
  handlers' = [handlers EXCEPT ![h] =
    [IdleHandler EXCEPT !.pc = pc, !.user = u, !.date = in.date,
       !.units = in.units, !.bloodGroup = in.bloodGroup, !.checked = TRUE,
       !.base = Snapshot(u)]]

Body(h) ==
  [date |-> handlers[h].date, units |-> handlers[h].units,
   bloodGroup |-> handlers[h].bloodGroup, bank |-> "b1"]

Checked(u, proposed, found) ==
  [donor |-> u, proposed |-> proposed, prior |-> PriorDates(u),
   eligible |-> (found = {})]

RequestVars == <<requests, responders>>

HelperVars == <<arg, out, server, chat>>

-----------------------------------------------------------------------------
(* POST /donations of the validated router: validate, find the blood bank, *)
(* check eligibility, save the donation, update the user, add to inventory *)

Submit_Start(h, u, in, cap) ==
  /\ handlers[h].pc = "idle"
  /\ Len(donations) < cap
  /\ IF ~(in.units >= 1 /\ in.units <= 5 /\ in.date <= now)
       THEN /\ Finish(h)
            /\ event' = [NoEvent EXCEPT !.op = "submit", !.user = u,
                 !.resp = "400 invalid", !.base = Snapshot(u)]
     ELSE IF in.bank \notin Banks
       THEN /\ Finish(h)
            /\ event' = [NoEvent EXCEPT !.op = "submit", !.user = u,
                 !.resp = "400 no bank", !.base = Snapshot(u)]
     ELSE /\ Begin(h, u, in, "submit.check")
          /\ event' = [NoEvent EXCEPT !.op = "submit", !.user = u]
  /\ UNCHANGED <<now, donations, users, inventory, RequestVars, HelperVars>>

Submit_Check(h) ==
  /\ handlers[h].pc = "submit.check"
  /\ LET u == handlers[h].user
         found == FindRecent(u, now, DonationStatuses)
         chk == Checked(u, handlers[h].date, found)
     IN  IF found # {}
           THEN /\ Finish(h)
                /\ event' = [NoEvent EXCEPT !.op = "submit", !.user = u,
                     !.check = chk, !.resp = "400 wait",
                     !.base = handlers[h].base]
           ELSE /\ handlers' = [handlers EXCEPT ![h].pc = "submit.save",
                                                 ![h].checked = TRUE]
                /\ event' = [NoEvent EXCEPT !.op = "submit", !.user = u,
                                            !.check = chk]
  /\ UNCHANGED <<now, donations, users, inventory, RequestVars, HelperVars>>

Submit_Save(h) ==
  /\ handlers[h].pc = "submit.save"
  /\ IF DonationSchemaValid(Body(h))
       THEN /\ donations' =
                 Append(donations, NewDonation(handlers[h].user, Body(h), "pending"))
            /\ Goto(h, "submit.read")
            /\ event' = [NoEvent EXCEPT !.op = "submit", !.user = handlers[h].user]
       ELSE /\ Finish(h)
            /\ UNCHANGED donations
            /\ event' = [NoEvent EXCEPT !.op = "submit", !.user = handlers[h].user,
                 !.resp = "500", !.base = handlers[h].base]
  /\ UNCHANGED <<now, users, inventory, RequestVars, HelperVars>>

Submit_ReadUser(h) ==
  /\ handlers[h].pc = "submit.read"
  /\ LET user == users[handlers[h].user]
     IN  handlers' = [handlers EXCEPT
           ![h].pc = "submit.write",
           ![h].local = user,
           ![h].doc = UpdateUserStats(user, handlers[h].date, now)]
  /\ event' = [NoEvent EXCEPT !.op = "submit", !.user = handlers[h].user]
  /\ UNCHANGED <<now, donations, users, inventory, RequestVars, HelperVars>>

Submit_WriteUser(h) ==
  /\ handlers[h].pc = "submit.write"
  /\ LET u == handlers[h].user
         saved == SaveSet(users[u], handlers[h].local, handlers[h].doc)
     IN  /\ users' = [users EXCEPT ![u] = saved]
         /\ event' = [NoEvent EXCEPT !.op = "submit", !.user = u,
              !.apply = [user |-> u, date |-> handlers[h].date,
                         before |-> handlers[h].local, after |-> saved,
                         checked |-> handlers[h].checked]]
  /\ Goto(h, "submit.inventory")
  /\ UNCHANGED <<now, donations, inventory, RequestVars, HelperVars>>

Submit_Inventory(h) ==
  /\ handlers[h].pc = "submit.inventory"
  /\ inventory' = [inventory EXCEPT ![handlers[h].bloodGroup] = @ + handlers[h].units]
  /\ Finish(h)
  /\ event' = [NoEvent EXCEPT !.op = "submit", !.user = handlers[h].user,
       !.resp = "201", !.base = handlers[h].base,
       !.inv = [group |-> handlers[h].bloodGroup, delta |-> handlers[h].units,
                before |-> inventory[handlers[h].bloodGroup],
                after |-> inventory[handlers[h].bloodGroup] + handlers[h].units]]
  /\ UNCHANGED <<now, donations, users, RequestVars, HelperVars>>

\* the awaits of the handler after its validation
SubmitAwaits ==
  {"submit.check", "submit.save", "submit.read", "submit.write", "submit.inventory"}

\* the storage call the handler is waiting on rejects: the catch block
\* answers 500
Submit_Fault(h) ==
  /\ handlers[h].pc \in SubmitAwaits
  /\ Finish(h)
  /\ event' = [NoEvent EXCEPT !.op = "submit", !.user = handlers[h].user,
       !.resp = "500", !.base = handlers[h].base]
  /\ UNCHANGED <<now, donations, users, inventory, RequestVars, HelperVars>>

-----------------------------------------------------------------------------
(* POST /donations of the status-tracking router: validate, check          *)
(* eligibility against completed donations, save, $inc the donation count  *)

Create_Check(h, u, in, cap) ==
  /\ handlers[h].pc = "idle"
  /\ Len(donations) < cap
  /\ IF ~(in.bloodGroup \in BloodGroups /\ in.units >= 1 /\ in.units <= 5)
       THEN /\ Finish(h)
            /\ event' = [NoEvent EXCEPT !.op = "create", !.user = u,
                                        !.resp = "400 invalid"]
     ELSE LET found == FindRecent(u, now, {"completed"})
              chk == Checked(u, in.date, found)
          IN  IF found # {}
                THEN /\ Finish(h)
                     /\ event' = [NoEvent EXCEPT !.op = "create", !.user = u,
                                     !.check = chk, !.resp = "400 wait"]
                ELSE /\ BeginChecked(h, u, in, "create.save")
                     /\ event' = [NoEvent EXCEPT !.op = "create", !.user = u,
                                     !.check = chk]
  /\ UNCHANGED <<now, donations, users, inventory, RequestVars, HelperVars>>

Create_Save(h) ==
  /\ handlers[h].pc = "create.save"
  /\ donations' = Append(donations,
       PreSaveStatus(NewDonation(handlers[h].user, Body(h), "pending"), TRUE))
  /\ Goto(h, "create.inc")
  /\ event' = [NoEvent EXCEPT !.op = "create", !.user = handlers[h].user]
  /\ UNCHANGED <<now, users, inventory, RequestVars, HelperVars>>

Create_Inc(h) ==
  /\ handlers[h].pc = "create.inc"
  /\ LET u == handlers[h].user
         saved == [users[u] EXCEPT !.donationCount = @ + 1,
                                   !.lastDonation = handlers[h].date]
     IN  /\ users' = [users EXCEPT ![u] = saved]
         /\ event' = [NoEvent EXCEPT !.op = "create", !.user = u, !.resp = "201",
              !.apply = [user |-> u, date |-> handlers[h].date,
                         before |-> users[u], after |-> saved,
                         checked |-> handlers[h].checked]]
  /\ Finish(h)
  /\ UNCHANGED <<now, donations, inventory, RequestVars, HelperVars>>

\* PATCH /donations/:id/status, admin only: findByIdAndUpdate with $set of
\* the status, which runs no save middleware
UpdateDonationStatus(caller, i, status) ==
  /\ i \in 1..Len(donations)
  /\ IF users[caller].isAdmin
       THEN /\ donations' = [donations EXCEPT ![i].status = status]
            /\ event' = [NoEvent EXCEPT !.op = "status", !.user = caller,
                                        !.resp = "200"]
       ELSE /\ UNCHANGED donations
            /\ event' = [NoEvent EXCEPT !.op = "status", !.user = caller,
                                        !.resp = "403"]
  /\ UNCHANGED <<now, users, inventory, handlers, RequestVars, HelperVars>>

MaxHistory == 4

\* donation.updateStatus(newStatus, updatedBy, reason) on a donation just
\* loaded: set the status, push an entry on the status history, save
updateStatus(i, newStatus) ==
  /\ i \in 1..Len(donations)
  /\ Len(donations[i].statusHistory) + 2 <= MaxHistory
  /\ LET pushed == [donations[i] EXCEPT !.status = newStatus,
                                         !.statusHistory = Append(@, newStatus)]
     IN  donations' = [donations EXCEPT ![i] =
           PreSaveStatus(pushed, newStatus # donations[i].status)]
  /\ event' = [NoEvent EXCEPT !.op = "updateStatus", !.resp = "ok"]
  /\ UNCHANGED <<now, users, inventory, handlers, RequestVars, HelperVars>>

-----------------------------------------------------------------------------
(* POST /donations of the unvalidated router: save, then update the user   *)

Record_Save(h, u, in, cap) ==
  /\ handlers[h].pc = "idle"
  /\ Len(donations) < cap
  /\ IF ~(in.units >= 1)
       THEN /\ Finish(h)
            /\ UNCHANGED donations
            /\ event' = [NoEvent EXCEPT !.op = "record", !.user = u,
                                        !.resp = "400 invalid"]
     ELSE IF ~DonationSchemaValid(in)
       THEN /\ Finish(h)
            /\ UNCHANGED donations
            /\ event' = [NoEvent EXCEPT !.op = "record", !.user = u,
                                        !.resp = "500"]
     ELSE /\ donations' = Append(donations, NewDonation(u, in, "pending"))
          /\ Begin(h, u, in, "record.read")
          /\ event' = [NoEvent EXCEPT !.op = "record", !.user = u]
  /\ UNCHANGED <<now, users, inventory, RequestVars, HelperVars>>

Record_ReadUser(h) ==
  /\ handlers[h].pc = "record.read"
  /\ LET user == users[handlers[h].user]
     IN  handlers' = [handlers EXCEPT
           ![h].pc = "record.write",
           ![h].local = user,
           ![h].doc = UpdateUserStatsInline(user, handlers[h].date, now)]
  /\ event' = [NoEvent EXCEPT !.op = "record", !.user = handlers[h].user]
  /\ UNCHANGED <<now, donations, users, inventory, RequestVars, HelperVars>>

Record_WriteUser(h) ==
  /\ handlers[h].pc = "record.write"
  /\ LET u == handlers[h].user
         saved == SavePush(users[u], handlers[h].local, handlers[h].doc)
     IN  /\ users' = [users EXCEPT ![u] = saved]
         /\ event' = [NoEvent EXCEPT !.op = "record", !.user = u, !.resp = "201",
              !.apply = [user |-> u, date |-> handlers[h].date,
                         before |-> handlers[h].local, after |-> saved,
                         checked |-> handlers[h].checked]]
  /\ Finish(h)
  /\ UNCHANGED <<now, donations, inventory, RequestVars, HelperVars>>

-----------------------------------------------------------------------------
(* POST /donations of the minimal router: save the body as a donation      *)

Plain_Save(h, u, in, cap) ==
  /\ handlers[h].pc = "idle"
  /\ Len(donations) < cap
  /\ IF DonationSchemaValid(in)
       THEN /\ donations' = Append(donations, NewDonation(u, in, "pending"))
            /\ event' = [NoEvent EXCEPT !.op = "plain", !.user = u, !.resp = "200"]
       ELSE /\ UNCHANGED donations
            /\ event' = [NoEvent EXCEPT !.op = "plain", !.user = u, !.resp = "500"]
  /\ Finish(h)
  /\ UNCHANGED <<now, users, inventory, RequestVars, HelperVars>>

-----------------------------------------------------------------------------
(* The clock *)

TickSteps == {90, 91}

Tick(d) ==
  /\ now + d <= MaxDay
  /\ now' = now + d
  /\ event' = NoEvent
  /\ UNCHANGED <<donations, users, inventory, handlers, RequestVars, HelperVars>>

-----------------------------------------------------------------------------
(* Initial state and the donation specification *)

IdleResponder == [pc |-> "idle", user |-> "none", request |-> 0, local |-> NoRequest]

Responders == 1..NumResponders

NoArg == [n |-> 0]

\* new Chat({user, subject, status}): no message yet
NewChat == [messages |-> <<>>]

\* the server process once connectDB has connected at its first attempt
ServerUp == [db |-> "connected", retries |-> 0, attempts |-> 1, sockets |-> {}]

NoOut == [op |-> "none"]

Init ==
  /\ now = 0
  /\ donations = <<>>
  /\ users = [u \in Users |-> NewUser(u)]
  /\ inventory = [g \in BloodGroups |-> 0]
  /\ handlers = [h \in Handlers |-> IdleHandler]
  /\ requests = <<>>
  /\ responders = [r \in Responders |-> IdleResponder]
  /\ event = NoEvent
  /\ arg = NoArg
  /\ out = NoOut
  /\ server = ServerUp
  /\ chat = NewChat

\* the statuses an admin sets in this model
StatusChoices == {"completed", "pending"}

Idle(HS) == \A h \in HS : handlers[h].pc = "idle"

\* the bodies every donation route accepts: a well-formed donation dated
\* today or back-dated
WellFormed(t) ==
  {in \in DonationInputs(t) :
     in.units = 1 /\ in.bloodGroup = "O+" /\ in.bank = "b1" /\ in.date <= t}

\* requests served one at a time
Sequential == {1}

Next ==
  \/ \E h \in Sequential, u \in Donors, in \in WellFormed(now) :
       Submit_Start(h, u, in, MaxDonations)
  \/ \E h \in Sequential : Submit_Check(h)
  \/ \E h \in Sequential : Submit_Save(h)
  \/ \E h \in Sequential : Submit_ReadUser(h)
  \/ \E h \in Sequential : Submit_WriteUser(h)
  \/ \E h \in Sequential : Submit_Inventory(h)
  \/ \E h \in Sequential, u \in Donors, in \in WellFormed(now) :
       Create_Check(h, u, in, MaxDonations)
  \/ \E h \in Sequential : Create_Save(h)
  \/ \E h \in Sequential : Create_Inc(h)
  \/ \E caller \in {"admin", "u2"}, i \in 1..MaxDonations, st \in StatusChoices :
       Idle(Sequential) /\ UpdateDonationStatus(caller, i, st)
  \/ \E h \in Sequential, u \in Donors, in \in WellFormed(now) :
       Record_Save(h, u, in, MaxDonations)
  \/ \E h \in Sequential : Record_ReadUser(h)
  \/ \E h \in Sequential : Record_WriteUser(h)
  \/ \E h \in Sequential, u \in Donors, in \in WellFormed(now) :
       Plain_Save(h, u, in, MaxDonations)
  \/ \E d \in TickSteps : Idle(Sequential) /\ Tick(d)

Spec == Init /\ [][Next]_vars

-----------------------------------------------------------------------------
(* Two donation requests of one donor in flight together, each dated today, *)
(* through the two routers that update the user's progression             *)

Today(t) == {in \in WellFormed(t) : in.date = t}

Racer == "u1"

NextRace ==
  \/ \E h \in Handlers, in \in Today(now) : Submit_Start(h, Racer, in, MaxDonations)
  \/ \E h \in Handlers : Submit_Check(h)
  \/ \E h \in Handlers : Submit_Save(h)
  \/ \E h \in Handlers : Submit_ReadUser(h)
  \/ \E h \in Handlers : Submit_WriteUser(h)
  \/ \E h \in Handlers : Submit_Inventory(h)
  \/ \E h \in Handlers, in \in Today(now) : Record_Save(h, Racer, in, MaxDonations)
  \/ \E h \in Handlers : Record_ReadUser(h)
  \/ \E h \in Handlers : Record_WriteUser(h)
  \/ \E d \in TickSteps : Idle(Handlers) /\ Tick(d)

SpecRace == Init /\ [][NextRace]_vars

-----------------------------------------------------------------------------
(* One donor creating donation after donation through the status-tracking  *)
(* router and the validated router                                         *)

DriftDonations == 11

NextDrift ==
  \/ \E in \in Today(now) : Submit_Start(1, Racer, in, DriftDonations)
  \/ Submit_Check(1)
  \/ Submit_Save(1)
  \/ Submit_ReadUser(1)
  \/ Submit_WriteUser(1)
  \/ Submit_Inventory(1)
  \/ \E in \in Today(now) : Create_Check(1, Racer, in, DriftDonations)
  \/ Create_Save(1)
  \/ Create_Inc(1)
  \/ Idle(Sequential) /\ Tick(91)

SpecDrift == Init /\ [][NextDrift]_vars

-----------------------------------------------------------------------------
(* One donor submitting donation bodies of every kind, valid or not, to    *)
(* each donation router                                                    *)

NextInput ==
  \/ \E in \in DonationInputs(now) : Submit_Start(1, Racer, in, MaxDonations)
  \/ Submit_Check(1)
  \/ Submit_Save(1)
  \/ Submit_ReadUser(1)
  \/ Submit_WriteUser(1)
  \/ Submit_Inventory(1)
  \/ \E in \in DonationInputs(now) : Create_Check(1, Racer, in, MaxDonations)
  \/ Create_Save(1)
  \/ Create_Inc(1)
  \/ \E in \in DonationInputs(now) : Record_Save(1, Racer, in, MaxDonations)
  \/ Record_ReadUser(1)
  \/ Record_WriteUser(1)
  \/ \E in \in DonationInputs(now) : Plain_Save(1, Racer, in, MaxDonations)
  \/ \E d \in TickSteps : Idle(Sequential) /\ Tick(d)

SpecInput == Init /\ [][NextInput]_vars

-----------------------------------------------------------------------------
(* Donations of the status-tracking router and the changes of their status *)

NextStatus ==
  \/ \E u \in Donors, in \in Today(now) : Create_Check(1, u, in, MaxDonations)
  \/ Create_Save(1)
  \/ Create_Inc(1)
  \/ \E caller \in {"admin", "u2"}, i \in 1..MaxDonations, st \in StatusChoices :
       Idle(Sequential) /\ UpdateDonationStatus(caller, i, st)
  \/ \E i \in 1..MaxDonations, st \in StatusChoices :
       Idle(Sequential) /\ updateStatus(i, st)

SpecStatus == Init /\ [][NextStatus]_vars

-----------------------------------------------------------------------------
(* Server start: connectDB with its retries, while the socket server takes *)
(* connections                                                             *)

retryLimit == 5

MayRetry_more(retries) == retries <= retryLimit

\* if (retries < retryLimit)
MayRetry(retries) == retries < retryLimit

\* the process right after connectDB() was called: the first
\* mongoose.connect is in flight
ServerStart == [db |-> "connecting", retries |-> 0, attempts |-> 1, sockets |-> {}]

ServerFrame ==
  UNCHANGED <<now, donations, users, inventory, handlers, RequestVars, event,
              arg, out, chat>>

\* tryConnect: mongoose.connect settles; on an error either count a retry
\* and set the 5 second timer, or exit the process
tryConnect(ok) ==
  /\ server.db = "connecting"
  /\ IF ok
       THEN server' = [server EXCEPT !.db = "connected"]
     ELSE IF MayRetry(server.retries)
       THEN server' = [server EXCEPT !.retries = @ + 1, !.db = "waiting"]
     ELSE server' = [server EXCEPT !.db = "exited", !.sockets = {}]
  /\ ServerFrame

\* setTimeout(tryConnect, 5000) fires: the next mongoose.connect starts
RetryTimer ==
  /\ server.db = "waiting"
  /\ server' = [server EXCEPT !.db = "connecting", !.attempts = @ + 1]
  /\ ServerFrame

Sockets == {"s1", "s2"}

Rooms == {"r1", "r2"}

\* io.on('connection')
Socket_Connect(sk) ==
  /\ server.db # "exited"
  /\ \A m \in server.sockets : m.socket # sk
  /\ server' = [server EXCEPT !.sockets = @ \cup {[socket |-> sk, room |-> "none"]}]
  /\ ServerFrame

\* socket.on('join_chat'): socket.join(roomId)
Socket_Join(sk, room) ==
  /\ server.db # "exited"
  /\ \E m \in server.sockets : m.socket = sk
  /\ server' = [server EXCEPT !.sockets = @ \cup {[socket |-> sk, room |-> room]}]
  /\ ServerFrame

\* socket.on('disconnect'): the socket leaves its rooms
Socket_Disconnect(sk) ==
  /\ server.db # "exited"
  /\ \E m \in server.sockets : m.socket = sk
  /\ server' = [server EXCEPT !.sockets = {m \in @ : m.socket # sk}]
  /\ ServerFrame

InitConnect ==
  /\ now = 0
  /\ donations = <<>>
  /\ users = [u \in Users |-> NewUser(u)]
  /\ inventory = [g \in BloodGroups |-> 0]
  /\ handlers = [h \in Handlers |-> IdleHandler]
  /\ requests = <<>>
  /\ responders = [r \in Responders |-> IdleResponder]
  /\ event = NoEvent
  /\ arg = NoArg
  /\ out = NoOut
  /\ server = ServerStart
  /\ chat = NewChat

NextConnect ==
  \/ \E ok \in BOOLEAN : tryConnect(ok)
  \/ RetryTimer
  \/ \E sk \in Sockets : Socket_Connect(sk)
  \/ \E sk \in Sockets, room \in Rooms : Socket_Join(sk, room)
  \/ \E sk \in Sockets : Socket_Disconnect(sk)

\* a mongoose.connect in flight settles (server selection times out), and a
\* timer that was set fires
SpecConnect ==
  /\ InitConnect
  /\ [][NextConnect]_vars
  /\ WF_vars(\E ok \in BOOLEAN : tryConnect(ok))
  /\ WF_vars(RetryTimer)

-----------------------------------------------------------------------------
(* The eligibility query beside the donation routers                       *)

\* GET /eligibility: isEligible = nextEligibleDate ? now >= nextEligibleDate
\* : true
GetEligibility(u) ==
  /\ LET user == users[u]
         isEligible == IF user.nextEligibleDate # NoDate
                         THEN now >= user.nextEligibleDate
                         ELSE TRUE
     IN  event' = [NoEvent EXCEPT !.op = "eligibility", !.user = u, !.resp = "200",
           !.check = [donor |-> u, proposed |-> now, prior |-> PriorDates(u),
                      eligible |-> isEligible]]
  /\ UNCHANGED <<now, donations, users, inventory, handlers, RequestVars, HelperVars>>

EligibilityTicks == {89, 90, 91}

NextEligibility ==
  \/ \E in \in WellFormed(now) : Submit_Start(1, Racer, in, MaxDonations)
  \/ Submit_Check(1)
  \/ Submit_Save(1)
  \/ Submit_ReadUser(1)
  \/ Submit_WriteUser(1)
  \/ Submit_Inventory(1)
  \/ \E in \in WellFormed(now) : Create_Check(1, Racer, in, MaxDonations)
  \/ Create_Save(1)
  \/ Create_Inc(1)
  \/ Idle(Sequential) /\ GetEligibility(Racer)
  \/ \E d \in EligibilityTicks : Idle(Sequential) /\ Tick(d)

SpecEligibility == Init /\ [][NextEligibility]_vars

-----------------------------------------------------------------------------
(* Donation submissions of the validated router, one at a time, with the   *)
(* data store failing at any of its calls                                  *)

NextFault ==
  \/ \E u \in Donors, in \in DonationInputs(now) :
       Submit_Start(1, u, in, MaxDonations)
  \/ Submit_Check(1)
  \/ Submit_Save(1)
  \/ Submit_ReadUser(1)
  \/ Submit_WriteUser(1)
  \/ Submit_Inventory(1)
  \/ Submit_Fault(1)
  \/ \E d \in TickSteps : Idle(Sequential) /\ Tick(d)

SpecFault == Init /\ [][NextFault]_vars

-----------------------------------------------------------------------------
(* The support chat: messages sent by its two parties, and read marks      *)

MaxMessages == 3

\* chatSchema.pre('save'): when the messages were modified, the last
\* message's readBy becomes the one entry of its sender
ChatPreSave(doc, modified) ==
  IF modified /\ doc.messages # <<>>
    THEN [doc EXCEPT !.messages[Len(doc.messages)].readBy =
            <<doc.messages[Len(doc.messages)].sender>>]
    ELSE doc

\* the forEach of markAsRead: push the user on the readBy of every message
\* that does not hold the user
PushRead(doc, userId) ==
  [doc EXCEPT !.messages =
     [k \in 1..Len(doc.messages) |->
        IF userId \in Range(doc.messages[k].readBy)
          THEN doc.messages[k]
          ELSE [doc.messages[k] EXCEPT !.readBy = Append(@, userId)]]]

\* chat.markAsRead(userId): the forEach, then this.save()
markAsRead(doc, userId) ==
  LET pushed == PushRead(doc, userId)
  IN  ChatPreSave(pushed, pushed # doc)

\* POST /chat/:chatId/messages by a party of the chat: push the message, save
Chat_Send(sender) ==
  /\ Len(chat.messages) < MaxMessages
  /\ chat' = ChatPreSave(
       [chat EXCEPT !.messages = Append(@, [sender |-> sender, readBy |-> <<>>])],
       TRUE)
  /\ event' = [NoEvent EXCEPT !.op = "sendMessage", !.user = sender, !.resp = "200"]
  /\ UNCHANGED <<now, donations, users, inventory, handlers, RequestVars, arg, out,
                 server>>

Chat_MarkAsRead(u) ==
  /\ chat' = markAsRead(chat, u)
  /\ event' = [NoEvent EXCEPT !.op = "markAsRead", !.user = u, !.resp = "ok"]
  /\ UNCHANGED <<now, donations, users, inventory, handlers, RequestVars, arg, out,
                 server>>

\* the user of the chat and the support agent
Parties == {"u1", "admin"}

NextChat ==
  \/ \E sender \in Parties : Chat_Send(sender)
  \/ \E u \in Users : Chat_MarkAsRead(u)

SpecChat == Init /\ [][NextChat]_vars

-----------------------------------------------------------------------------
(* Profile updates: the user's own profile routes and the admin's user     *)
(* update                                                                  *)

\* request bodies: the fields a caller sends, each with its value
ProfileBodies ==
  {[bloodGroup |-> "A+"], [bloodGroup |-> "none"], [isDonor |-> FALSE],
   [rewardPoints |-> 500], [bloodGroup |-> "B+", donationCount |-> 50]}

\* {$set: body}: every path the body names takes the body's value
SetFields(user, body) ==
  [f \in DOMAIN user |-> IF f \in DOMAIN body THEN body[f] ELSE user[f]]

\* the body cut down to the fields a list allows
Pick(body, allowed) == [f \in DOMAIN body \cap allowed |-> body[f]]

\* the fields of the user document among 'name', 'bloodGroup', 'phone',
\* 'email', 'location', 'picture'
allowedFields == {"bloodGroup", "loc"}

ProfileValid(body) ==
  /\ "bloodGroup" \in DOMAIN body => body["bloodGroup"] \in BloodGroups
  /\ "isDonor" \in DOMAIN body => body["isDonor"] \in BOOLEAN

Applied(u, saved) ==
  [NoApply EXCEPT !.user = u, !.before = users[u], !.after = saved]

\* PATCH /auth/profile: validate, then $set the whole body
UpdateProfile(u, body) ==
  /\ IF ~ProfileValid(body)
       THEN /\ UNCHANGED users
            /\ event' = [NoEvent EXCEPT !.op = "profile", !.user = u,
                                        !.resp = "400 invalid"]
       ELSE LET saved == SetFields(users[u], body)
            IN  /\ users' = [users EXCEPT ![u] = saved]
                /\ event' = [NoEvent EXCEPT !.op = "profile", !.user = u,
                     !.resp = "200", !.apply = Applied(u, saved)]
  /\ UNCHANGED <<now, donations, inventory, handlers, RequestVars, HelperVars>>

\* PUT /profile of the users router: validate, then $set the allowed fields
UpdateProfileAllowed(u, body) ==
  /\ IF ~ProfileValid(body)
       THEN /\ UNCHANGED users
            /\ event' = [NoEvent EXCEPT !.op = "profileAllowed", !.user = u,
                                        !.resp = "400 invalid"]
       ELSE LET saved == SetFields(users[u], Pick(body, allowedFields))
            IN  /\ users' = [users EXCEPT ![u] = saved]
                /\ event' = [NoEvent EXCEPT !.op = "profileAllowed", !.user = u,
                     !.resp = "200", !.apply = Applied(u, saved)]
  /\ UNCHANGED <<now, donations, inventory, handlers, RequestVars, HelperVars>>

\* PUT /admin/users/:id, behind the admin middleware: $set the body
AdminUpdateUser(caller, id, body) ==
  /\ IF ~users[caller].isAdmin
       THEN /\ UNCHANGED users
            /\ event' = [NoEvent EXCEPT !.op = "adminUpdate", !.user = caller,
                                        !.resp = "403"]
     ELSE IF Absent(id)
       THEN /\ UNCHANGED users
            /\ event' = [NoEvent EXCEPT !.op = "adminUpdate", !.user = caller,
                                        !.resp = "404"]
     ELSE LET saved == SetFields(users[id], body)
          IN  /\ users' = [users EXCEPT ![id] = saved]
              /\ event' = [NoEvent EXCEPT !.op = "adminUpdate", !.user = caller,
                   !.resp = "200", !.apply = Applied(id, saved)]
  /\ UNCHANGED <<now, donations, inventory, handlers, RequestVars, HelperVars>>

\* PUT /admin/users/:id/make-admin, behind the admin middleware
MakeAdmin(caller, id) ==
  /\ IF ~users[caller].isAdmin
       THEN /\ UNCHANGED users
            /\ event' = [NoEvent EXCEPT !.op = "makeAdmin", !.user = caller,
                                        !.resp = "403"]
     ELSE IF Absent(id)
       THEN /\ UNCHANGED users
            /\ event' = [NoEvent EXCEPT !.op = "makeAdmin", !.user = caller,
                                        !.resp = "404"]
     ELSE LET saved == [users[id] EXCEPT !.isAdmin = TRUE]
          IN  /\ users' = [users EXCEPT ![id] = saved]
              /\ event' = [NoEvent EXCEPT !.op = "makeAdmin", !.user = caller,
                   !.resp = "200", !.apply = Applied(id, saved)]
  /\ UNCHANGED <<now, donations, inventory, handlers, RequestVars, HelperVars>>

\* POST /auth/register: validate, refuse an email that is taken, create the
\* user from name, email, password, bloodGroup and isDonor
Register(id, body) ==
  /\ IF ~ProfileValid(body)
       THEN /\ UNCHANGED users
            /\ event' = [NoEvent EXCEPT !.op = "register", !.user = id,
                                        !.resp = "400 invalid"]
     ELSE IF ~Absent(id)
       THEN /\ UNCHANGED users
            /\ event' = [NoEvent EXCEPT !.op = "register", !.user = id,
                                        !.resp = "400 exists"]
     ELSE LET saved == [NewUser("none") EXCEPT !.bloodGroup = body["bloodGroup"]]
          IN  /\ users' = [users EXCEPT ![id] = saved]
              /\ event' = [NoEvent EXCEPT !.op = "register", !.user = id,
                   !.resp = "201", !.apply = Applied(id, saved)]
  /\ UNCHANGED <<now, donations, inventory, handlers, RequestVars, HelperVars>>

\* DELETE /admin/users/:id, behind the admin middleware, up to its first
\* await: User.findById
Delete_Find(h, caller, id) ==
  /\ handlers[h].pc = "idle"
  /\ IF ~users[caller].isAdmin
       THEN /\ Finish(h)
            /\ event' = [NoEvent EXCEPT !.op = "deleteUser", !.user = caller,
                                        !.resp = "403"]
     ELSE IF Absent(id)
       THEN /\ Finish(h)
            /\ event' = [NoEvent EXCEPT !.op = "deleteUser", !.user = caller,
                                        !.resp = "404"]
     ELSE /\ handlers' = [handlers EXCEPT ![h] =
               [IdleHandler EXCEPT
                  !.pc = IF users[id].isAdmin THEN "delete.count" ELSE "delete.delete",
                  !.user = id]]
          /\ event' = [NoEvent EXCEPT !.op = "deleteUser", !.user = caller]
  /\ UNCHANGED <<now, donations, users, inventory, RequestVars, HelperVars>>

\* User.countDocuments({isAdmin: true})
AdminCount == Cardinality({u \in Users : ~users[u].deleted /\ users[u].isAdmin})

\* the last-admin check on the count
Delete_Count(h) ==
  /\ handlers[h].pc = "delete.count"
  /\ IF AdminCount <= 1
       THEN /\ Finish(h)
            /\ event' = [NoEvent EXCEPT !.op = "deleteUser", !.resp = "400 last admin"]
       ELSE /\ Goto(h, "delete.delete")
            /\ event' = [NoEvent EXCEPT !.op = "deleteUser"]
  /\ UNCHANGED <<now, donations, users, inventory, RequestVars, HelperVars>>

\* User.findByIdAndDelete(id)
Delete_Delete(h) ==
  /\ handlers[h].pc = "delete.delete"
  /\ users' = [users EXCEPT ![handlers[h].user] = Gone]
  /\ Finish(h)
  /\ event' = [NoEvent EXCEPT !.op = "deleteUser", !.resp = "200"]
  /\ UNCHANGED <<now, donations, inventory, RequestVars, HelperVars>>

\* bodies that name the admin flag
AdminBodies == {[isAdmin |-> TRUE], [isAdmin |-> FALSE]}

\* the users who call the admin routes
AdminCallers == {"admin", "u1"}

NextAdmin ==
  \/ \E body \in {[bloodGroup |-> "O+"], [bloodGroup |-> "none"]} :
       Register("u2", body)
  \/ \E body \in AdminBodies : ~Absent("u2") /\ UpdateProfile("u2", body)
  \/ \E body \in AdminBodies : ~Absent("u2") /\ UpdateProfileAllowed("u2", body)
  \/ \E caller \in AdminCallers, id \in AdminCallers, body \in AdminBodies :
       AdminUpdateUser(caller, id, body)
  \/ \E caller \in AdminCallers, id \in AdminCallers : MakeAdmin(caller, id)
  \/ \E h \in Handlers, caller \in AdminCallers, id \in Users :
       Delete_Find(h, caller, id)
  \/ \E h \in Handlers : Delete_Count(h)
  \/ \E h \in Handlers : Delete_Delete(h)

SpecAdmin == Init /\ [][NextAdmin]_vars

NextProfile ==
  \/ \E body \in ProfileBodies : UpdateProfile("u1", body)
  \/ \E body \in ProfileBodies : UpdateProfileAllowed("u1", body)
  \/ \E caller \in {"admin", "u2"}, id \in {"u1", "u2", "u9"}, body \in ProfileBodies :
       AdminUpdateUser(caller, id, body)

SpecProfile == Init /\ [][NextProfile]_vars

-----------------------------------------------------------------------------
(* PATCH /bloodbanks/:id/inventory: load the blood bank, add the units to  *)
(* the group's entry with a floor of 0, save                               *)

MaxUnits == 4

DeltaChoices == {2, 0 - 1}

Max(a, b) == IF a >= b THEN a ELSE b

Inv_Read(h, bank, g, delta) ==
  /\ handlers[h].pc = "idle"
  /\ inventory[g] + delta <= MaxUnits
  /\ IF bank \notin Banks
       THEN /\ Finish(h)
            /\ event' = [NoEvent EXCEPT !.op = "inventory", !.resp = "404"]
       ELSE /\ handlers' = [handlers EXCEPT ![h] =
                 [IdleHandler EXCEPT !.pc = "inv.save", !.bloodGroup = g,
                    !.delta = delta, !.units = Max(0, inventory[g] + delta)]]
            /\ event' = [NoEvent EXCEPT !.op = "inventory"]
  /\ UNCHANGED <<now, donations, users, inventory, RequestVars, HelperVars>>

\* bloodBank.save(): the entry's units are $set to the value computed
Inv_Save(h) ==
  /\ handlers[h].pc = "inv.save"
  /\ LET g == handlers[h].bloodGroup
     IN  /\ inventory' = [inventory EXCEPT ![g] = handlers[h].units]
         /\ event' = [NoEvent EXCEPT !.op = "inventory", !.resp = "200",
              !.inv = [group |-> g, delta |-> handlers[h].delta,
                       before |-> inventory[g], after |-> handlers[h].units]]
  /\ Finish(h)
  /\ UNCHANGED <<now, donations, users, RequestVars, HelperVars>>

NextInventory ==
  \/ \E h \in Handlers, bank \in BankChoices, g \in {"O+", "A+"}, d \in DeltaChoices :
       Inv_Read(h, bank, g, d)
  \/ \E h \in Handlers : Inv_Save(h)

SpecInventory == Init /\ [][NextInventory]_vars

-----------------------------------------------------------------------------
(* The level helpers applied to a donation count *)

InitLevel ==
  /\ now = 0
  /\ donations = <<>>
  /\ users = [u \in Users |-> NewUser(u)]
  /\ inventory = [g \in BloodGroups |-> 0]
  /\ handlers = [h \in Handlers |-> IdleHandler]
  /\ requests = <<>>
  /\ responders = [r \in Responders |-> IdleResponder]
  /\ event = NoEvent
  /\ arg \in [n : 0..MaxCount]
  /\ out = NoOut
  /\ server = ServerUp
  /\ chat = NewChat

StoreVars == <<now, donations, users, inventory, handlers, event, server, chat>>

CalcLevel ==
  /\ out' = [op |-> "calculateUserLevel", level |-> calculateUserLevel(arg.n),
             levelProgress |-> calculateLevelProgress(arg.n)]
  /\ UNCHANGED <<arg, StoreVars, RequestVars>>

CalcLevelInline ==
  /\ out' = [op |-> "inline", level |-> UpdateLevelInline(arg.n).level,
             levelProgress |-> UpdateLevelInline(arg.n).levelProgress]
  /\ UNCHANGED <<arg, StoreVars, RequestVars>>

NextLevel == CalcLevel \/ CalcLevelInline

\* GET /rewards/status: the level progress of a user whose stored level is
\* the level of the user's donation count
CalcRewardsStatus ==
  /\ out' = [op |-> "rewardsStatus", level |-> calculateUserLevel(arg.n),
             levelProgress |->
               calculateLevelProgressOf(arg.n, calculateUserLevel(arg.n))]
  /\ UNCHANGED <<arg, StoreVars, RequestVars>>

NextRewards == CalcLevel \/ CalcRewardsStatus

SpecRewards == InitLevel /\ [][NextRewards]_vars

SpecLevel == InitLevel /\ [][NextLevel]_vars

-----------------------------------------------------------------------------
(* Blood requests: creation with donor matching, and the donor responses   *)

\* great-circle distance in metres between two points of one meridian, each
\* given by its distance from the point [0, 0]
Distance(a, b) == Abs(a - b)

\* $maxDistance of the donor query
MaxDistance_flat(urgency) == 50000

MaxDistance(urgency) == IF urgency = "critical" THEN 100000 ELSE 50000

\* User.find({bloodGroup, isDonor: true, location: {$near: {$geometry,
\* $maxDistance}}})
FindDonors(bloodGroup, loc, maxDistance) ==
  {u \in Users :
     /\ users[u].bloodGroup = bloodGroup
     /\ users[u].isDonor
     /\ Distance(users[u].loc, loc) <= maxDistance}

Urgencies == {"normal", "urgent", "critical"}

\* a donorsResponded value a request body may carry
BodyCounts == {0, 5}

\* a request body: location.coordinates may be absent, and is then [0, 0];
\* donorsResponded may be absent, and is then the schema's default 0
RequestInputs ==
  [bloodGroup : {"O+", "A+"}, urgency : Urgencies \cup {"high"}, loc : {0, 1},
   donorsResponded : BodyCounts]

\* POST /requests: new BloodRequest({...req.body, requester, status}) takes
\* every schema path the body carries; the donor list is not modified, so
\* the pre-save hook leaves donorsResponded as given
CreateRequest(u, in, cap) ==
  /\ Len(requests) < cap
  /\ IF ~(in.bloodGroup \in BloodGroups /\ in.urgency \in Urgencies)
       THEN /\ UNCHANGED requests
            /\ event' = [NoEvent EXCEPT !.op = "createRequest", !.user = u,
                                        !.resp = "400 invalid"]
       ELSE /\ requests' = Append(requests,
                 [requester |-> u, bloodGroup |-> in.bloodGroup,
                  urgency |-> in.urgency, status |-> "in-progress",
                  loc |-> in.loc, donors |-> <<>>,
                  donorsResponded |-> in.donorsResponded])
            /\ event' = [NoEvent EXCEPT !.op = "createRequest", !.user = u,
                 !.resp = "201", !.request = Len(requests) + 1,
                 !.match = [urgency |-> in.urgency, bloodGroup |-> in.bloodGroup,
                            loc |-> in.loc,
                            donors |-> FindDonors(in.bloodGroup, in.loc,
                                                  MaxDistance(in.urgency))]]
  /\ UNCHANGED <<now, donations, users, inventory, handlers, responders, HelperVars>>

HasDonor(request, u) == \E k \in 1..Len(request.donors) : request.donors[k].donor = u

\* POST /requests/:id/respond, up to the save: load the request, refuse a
\* donor the loaded list holds, push the donor on the loaded list
Respond_Read(r, u, id) ==
  /\ responders[r].pc = "idle"
  /\ IF id > Len(requests)
       THEN /\ UNCHANGED responders
            /\ event' = [NoEvent EXCEPT !.op = "respond", !.user = u,
                                        !.request = id, !.resp = "404"]
     ELSE IF HasDonor(requests[id], u)
       THEN /\ UNCHANGED responders
            /\ event' = [NoEvent EXCEPT !.op = "respond", !.user = u,
                 !.request = id, !.resp = "400 already responded",
                 !.listed = TRUE, !.before = requests[id]]
     ELSE /\ responders' = [responders EXCEPT ![r] =
               [pc |-> "save", user |-> u, request |-> id,
                local |-> [requests[id] EXCEPT
                   !.donors = Append(@, [donor |-> u, status |-> "pending"]),
                   !.donorsResponded = Len(requests[id].donors) + 1]]]
          /\ event' = [NoEvent EXCEPT !.op = "respond", !.user = u, !.request = id]
  /\ UNCHANGED <<now, donations, users, inventory, handlers, requests, HelperVars>>

\* request.save() of the respond handler: the pushed entry is appended
\* ($push) to the stored list, donorsResponded is $set to the loaded length
Respond_Save(r) ==
  /\ responders[r].pc = "save"
  /\ LET id == responders[r].request
         u == responders[r].user
         local == responders[r].local
     IN  /\ requests' = [requests EXCEPT ![id] =
               [@ EXCEPT !.donors = Append(@, local.donors[Len(local.donors)]),
                         !.donorsResponded = local.donorsResponded]]
         /\ event' = [NoEvent EXCEPT !.op = "respond", !.user = u,
              !.request = id, !.resp = "200",
              !.listed = HasDonor(requests[id], u), !.before = requests[id]]
  /\ responders' = [responders EXCEPT ![r] = IdleResponder]
  /\ UNCHANGED <<now, donations, users, inventory, handlers, HelperVars>>

\* request.addDonor(donorId) on a request just loaded
AddDonor(id, u) ==
  /\ id \in 1..Len(requests)
  /\ IF ~HasDonor(requests[id], u)
       THEN requests' = [requests EXCEPT ![id] =
              [@ EXCEPT !.donors = Append(@, [donor |-> u, status |-> "pending"]),
                        !.donorsResponded = Len(requests[id].donors) + 1]]
       ELSE UNCHANGED requests
  /\ event' = [NoEvent EXCEPT !.op = "addDonor", !.user = u, !.request = id,
       !.resp = "ok", !.listed = HasDonor(requests[id], u), !.before = requests[id]]
  /\ UNCHANGED <<now, donations, users, inventory, handlers, responders, HelperVars>>

\* the status values of the two request routers
RequestStatuses == {"pending", "in-progress", "fulfilled", "cancelled"}

OpenStatuses == {"Open", "Fulfilled", "Cancelled"}

\* PATCH /requests/:id/status of the request router, on the requests that
\* router created: validate the status, load the request, refuse every
\* caller but the requester, set the status and save
UpdateRequestStatus(caller, id, status) ==
  /\ IF id > Len(requests) THEN TRUE ELSE requests[id].status \in RequestStatuses
  /\ IF status \notin RequestStatuses
       THEN /\ UNCHANGED requests
            /\ event' = [NoEvent EXCEPT !.op = "requestStatus", !.user = caller,
                 !.request = id, !.status = status, !.resp = "400 invalid"]
     ELSE IF id > Len(requests)
       THEN /\ UNCHANGED requests
            /\ event' = [NoEvent EXCEPT !.op = "requestStatus", !.user = caller,
                 !.request = id, !.status = status, !.resp = "404"]
     ELSE IF requests[id].requester # caller
       THEN /\ UNCHANGED requests
            /\ event' = [NoEvent EXCEPT !.op = "requestStatus", !.user = caller,
                 !.request = id, !.status = status, !.resp = "403",
                 !.before = requests[id]]
     ELSE /\ requests' = [requests EXCEPT ![id].status = status]
          /\ event' = [NoEvent EXCEPT !.op = "requestStatus", !.user = caller,
               !.request = id, !.status = status, !.resp = "200",
               !.before = requests[id]]
  /\ UNCHANGED <<now, donations, users, inventory, handlers, responders, HelperVars>>

\* POST /requests of the second request router: the request starts Open
CreateOpenRequest(u, in, cap) ==
  /\ Len(requests) < cap
  /\ IF in.bloodGroup \notin BloodGroups
       THEN /\ UNCHANGED requests
            /\ event' = [NoEvent EXCEPT !.op = "createOpen", !.user = u,
                                        !.resp = "400 invalid"]
       ELSE /\ requests' = Append(requests,
                 [requester |-> u, bloodGroup |-> in.bloodGroup,
                  urgency |-> in.urgency, status |-> "Open",
                  loc |-> in.loc, donors |-> <<>>,
                  donorsResponded |-> in.donorsResponded])
            /\ event' = [NoEvent EXCEPT !.op = "createOpen", !.user = u,
                 !.resp = "201", !.request = Len(requests) + 1]
  /\ UNCHANGED <<now, donations, users, inventory, handlers, responders, HelperVars>>

\* PATCH /:id/status of the second request router, on the requests that
\* router created: the requester or an admin sets Open, Fulfilled or Cancelled
UpdateOpenRequestStatus(caller, id, status) ==
  /\ IF id > Len(requests) THEN TRUE ELSE requests[id].status \in OpenStatuses
  /\ IF status \notin OpenStatuses
       THEN /\ UNCHANGED requests
            /\ event' = [NoEvent EXCEPT !.op = "openStatus", !.user = caller,
                 !.request = id, !.status = status, !.resp = "400 invalid"]
     ELSE IF id > Len(requests)
       THEN /\ UNCHANGED requests
            /\ event' = [NoEvent EXCEPT !.op = "openStatus", !.user = caller,
                 !.request = id, !.status = status, !.resp = "404"]
     ELSE IF requests[id].requester # caller /\ ~users[caller].isAdmin
       THEN /\ UNCHANGED requests
            /\ event' = [NoEvent EXCEPT !.op = "openStatus", !.user = caller,
                 !.request = id, !.status = status, !.resp = "403",
                 !.before = requests[id]]
     ELSE /\ requests' = [requests EXCEPT ![id].status = status]
          /\ event' = [NoEvent EXCEPT !.op = "openStatus", !.user = caller,
               !.request = id, !.status = status, !.resp = "200",
               !.before = requests[id]]
  /\ UNCHANGED <<now, donations, users, inventory, handlers, responders, HelperVars>>

\* request bodies of one blood group and place
PlainRequests == {in \in RequestInputs : in.bloodGroup = "O+" /\ in.loc = 0}

NextRequest ==
  \/ \E u \in {"u1", "admin"}, in \in PlainRequests : CreateRequest(u, in, MaxRequests)
  \/ \E u \in Users, id \in 1..MaxRequests : Respond_Read(1, u, id)
  \/ Respond_Save(1)
  \/ \E u \in Users, id \in 1..MaxRequests :
       responders[1].pc = "idle" /\ AddDonor(id, u)
  \/ \E u \in Users, id \in 1..MaxRequests, st \in RequestStatuses \cup {"bogus"} :
       UpdateRequestStatus(u, id, st)
  \/ \E in \in PlainRequests : CreateOpenRequest("u1", in, MaxRequests)
  \/ \E u \in Users, id \in 1..MaxRequests, st \in OpenStatuses \cup {"bogus"} :
       UpdateOpenRequestStatus(u, id, st)

SpecRequest == Init /\ [][NextRequest]_vars

\* respond calls in flight together
NextRespondRace ==
  \/ \E in \in PlainRequests : CreateRequest("admin", in, MaxRequests)
  \/ \E r \in Responders, u \in Donors, id \in 1..MaxRequests : Respond_Read(r, u, id)
  \/ \E r \in Responders : Respond_Save(r)

SpecRespondRace == Init /\ [][NextRespondRace]_vars

\* donor matching over users of any place, blood group and donor flag
LocChoices == {49999, 50000, 50001, 99000, 100000, 100001, 101000}

InitGeo ==
  /\ now = 0
  /\ donations = <<>>
  /\ \E l1 \in LocChoices, l2 \in LocChoices, g \in {"O+", "A+"}, d \in BOOLEAN :
       users = [u \in Users |->
         IF u = "u1" THEN [NewUser(u) EXCEPT !.loc = l1, !.bloodGroup = g, !.isDonor = d]
         ELSE IF u = "u2" THEN [NewUser(u) EXCEPT !.loc = l2]
         ELSE NewUser(u)]
  /\ inventory = [g \in BloodGroups |-> 0]
  /\ handlers = [h \in Handlers |-> IdleHandler]
  /\ requests = <<>>
  /\ responders = [r \in Responders |-> IdleResponder]
  /\ event = NoEvent
  /\ arg = NoArg
  /\ out = NoOut
  /\ server = ServerUp
  /\ chat = NewChat

GeoRequests == 1

NextGeo == \E in \in RequestInputs : CreateRequest("admin", in, GeoRequests)

SpecGeo == InitGeo /\ [][NextGeo]_vars

-----------------------------------------------------------------------------
(* Properties *)

\* the level table of the progression rules
ClaimLevel(n) ==
  IF n <= 9 THEN "Bronze"
  ELSE IF n <= 24 THEN "Silver"
  ELSE IF n <= 49 THEN "Gold"
  ELSE "Platinum"

\* p is the level progress the table gives for n donations: p = <<a, b>>
\* stands for a / b
IsClaimProgress(n, p) ==
  /\ p[2] > 0
  /\ IF n <= 9 THEN p[1] * 10 = n * 100 * p[2]
     ELSE IF n <= 24 THEN p[1] * 15 = (n - 10) * 100 * p[2]
     ELSE IF n <= 49 THEN p[1] * 25 = (n - 25) * 100 * p[2]
     ELSE p[1] = 100 * p[2]

\* C1: the eligibility check of a donation submission reports ineligible if
\* and only if the donor has a prior donation dated in
\* [proposedDate - 90 days, proposedDate); a donor with no prior donation is
\* always eligible.
C1_EligibilityWindow ==
  event.check.donor # "none" =>
    (~event.check.eligible <=>
       \E d \in event.check.prior :
         event.check.proposed - 90 <= d /\ d < event.check.proposed)

\* C2: no donor has two persisted donations whose dates are less than 90
\* days apart, whatever operation created them and however they are dated.
C2_NoDonationsWithin90Days ==
  \A i, j \in 1..Len(donations) :
    (i < j /\ donations[i].donor = donations[j].donor) =>
      Abs(donations[i].date - donations[j].date) >= 90

\* C3: once the donation submissions of a donor that were in flight together
\* have all finished, the donor's donationCount has grown by exactly the
\* number of donations persisted and rewardPoints holds the base points of
\* each of them: no progression write overwrites another.
C3_ProgressionLinearizable ==
  Idle(Handlers) =>
    /\ users[Racer].donationCount = Cardinality(DonationsOf(Racer))
    /\ users[Racer].rewardPoints >= 100 * Cardinality(DonationsOf(Racer))

\* C4: for every donation count n >= 0 the computed level and level progress
\* are those of the table: 0-9 Bronze with n/10 * 100, 10-24 Silver with
\* (n-10)/15 * 100, 25-49 Gold with (n-25)/25 * 100, 50 and more Platinum
\* with 100.
C4_LevelTable ==
  out.op # "none" =>
    /\ out.level = ClaimLevel(arg.n)
    /\ IsClaimProgress(arg.n, out.levelProgress)

C4_Witness ==
  /\ out.op = "calculateUserLevel"
  /\ arg.n = 24
  /\ out.level = "Silver"
  /\ out.levelProgress = <<280, 3>>

\* C5: in every reachable state a user's stored level is the level of the
\* table for the user's stored donation count.
C5_LevelFollowsCount ==
  \A u \in Users : users[u].level = ClaimLevel(users[u].donationCount)

\* C6: a donation dated after the donor's previous one sets the streak to 1
\* when the gap between the two dates is more than 90 days, and otherwise
\* increments the streak the donor had by 1.
C6_StreakLaw ==
  (/\ event.op \in {"submit", "record"}
   /\ event.apply.user # "none"
   /\ event.apply.before.lastDonation # NoDate
   /\ event.apply.date > event.apply.before.lastDonation) =>
    IF event.apply.date - event.apply.before.lastDonation > 90
      THEN event.apply.after.streak = 1
      ELSE event.apply.after.streak = event.apply.before.streak + 1

\* C7: whenever a user's last-donation date is set, the user's
\* nextEligibleDate is set and is that date plus exactly 90 days.
C7_NextEligibleDate ==
  \A u \in Users :
    users[u].lastDonation # NoDate =>
      /\ users[u].nextEligibleDate # NoDate
      /\ users[u].nextEligibleDate = users[u].lastDonation + 90

C9_DuplicateResponseFails ==
  (event.op \in {"respond", "addDonor"} /\ event.listed) =>
    /\ event.resp \in {"400 already responded", "409"}
    /\ requests[event.request] = event.before

\* C11: in every reachable state of every blood request, from its creation
\* through any sequence of respond operations, donorsResponded equals the
\* length of the donor-response list (no caller sets it directly).
C11_DonorsRespondedIsLength ==
  \A id \in 1..Len(requests) :
    requests[id].donorsResponded = Len(requests[id].donors)

\* the status moves a blood request may make
RequestMoves ==
  {<<"pending", "in-progress">>, <<"in-progress", "fulfilled">>,
   <<"in-progress", "cancelled">>, <<"Open", "Fulfilled">>, <<"Open", "Cancelled">>}

\* C12: a blood request's status only moves along pending -> in-progress ->
\* {fulfilled, cancelled} (Open -> {Fulfilled, Cancelled} in the second
\* router): no call changes the status of a fulfilled or cancelled request,
\* and no call moves a request backwards.
C12_RequestStatusMonotonic ==
  [][\A id \in 1..Len(requests) :
       \/ requests'[id].status = requests[id].status
       \/ <<requests[id].status, requests'[id].status>> \in RequestMoves]_vars

\* C13: a status change of a blood request is applied if and only if the
\* caller is the request's requester or has the admin role; for any other
\* caller the call fails as not authorized and the request is unchanged.
C13_StatusChangeGuard ==
  (/\ event.op \in {"requestStatus", "openStatus"}
   /\ event.resp \in {"200", "403"}) =>
    IF event.user = event.before.requester \/ users[event.user].isAdmin
      THEN /\ event.resp = "200"
           /\ requests[event.request].status = event.status
      ELSE /\ event.resp = "403"
           /\ requests[event.request] = event.before

\* how far along its life a donation is
DonationRank(status) ==
  IF status = "pending" THEN 0 ELSE IF status = "approved" THEN 1 ELSE 2

\* C14: a donation's status only moves forward along pending -> approved ->
\* completed or to rejected/cancelled; completed, rejected and cancelled are
\* terminal: no status update changes the status of a donation that reached
\* one of them.
C14_DonationStatusTerminal ==
  [][\A i \in 1..Len(donations) :
       \/ donations'[i].status = donations[i].status
       \/ DonationRank(donations[i].status) < DonationRank(donations'[i].status)]_vars

\* C15: a donation submission whose units are outside 1..5, whose blood
\* type is not one of the 8 groups or whose date is in the future is
\* rejected and leaves the stored donations unchanged: every stored
\* donation has units in 1..5, one of the 8 groups and a date that is not
\* in the future.
C15_InvalidInputRejected ==
  \A i \in 1..Len(donations) :
    /\ donations[i].units \in 1..5
    /\ donations[i].bloodGroup \in BloodGroups
    /\ donations[i].date <= now

\* C16: a donor's progression is updated for a donation only after the
\* eligibility check accepted that donation and the donation was persisted.
C16_ProgressionAfterEligibility ==
  (event.op \in {"submit", "create", "record"} /\ event.apply.user # "none") =>
    /\ event.apply.checked
    /\ \E i \in 1..Len(donations) :
         /\ donations[i].donor = event.apply.user
         /\ donations[i].date = event.apply.date

\* the completed donations of a donor
CompletedOf(u) == {i \in DonationsOf(u) : donations[i].status = "completed"}

\* C17: donation count, reward points and streak are credited per completed
\* donation only: a donor's donationCount never exceeds the number of the
\* donor's completed donations, and a donor with no completed donation has
\* no reward points and no streak.
C17_CreditOnlyWhenCompleted ==
  \A u \in Users :
    /\ users[u].donationCount <= Cardinality(CompletedOf(u))
    /\ CompletedOf(u) = {} => (users[u].rewardPoints = 0 /\ users[u].streak = 0)

\* the fields only the recording of a donation may change
ProgressionFields ==
  {"donationCount", "rewardPoints", "streak", "level", "levelProgress",
   "badges", "lastDonation", "nextEligibleDate"}

\* C18: a profile update or an admin user update leaves the user's
\* progression fields unchanged, whatever fields the request body carries.
C18_ProfileKeepsProgression ==
  (/\ event.op \in {"profile", "profileAllowed", "adminUpdate"}
   /\ event.apply.user # "none") =>
    \A f \in ProgressionFields : event.apply.after[f] = event.apply.before[f]

\* C19: an inventory update behaves as an atomic increment with a floor of
\* 0: each write leaves the stored unit count at the count stored just
\* before it plus the update's delta (or at 0), so that no update in flight
\* together with it is lost.
C19_InventoryAtomic ==
  event.inv.group # "none" =>
    event.inv.after = Max(0, event.inv.before + event.inv.delta)

\* no element of the sequence occurs twice
NoDuplicates(seq) ==
  \A k, l \in 1..Len(seq) : seq[k] = seq[l] => k = l

\* C20: badge unlocking is idempotent (the badge-award step applied twice to
\* a user state gives the badge set it gives applied once) and in every
\* reachable state no badge occurs twice in a user's badges.
C20_BadgesIdempotent ==
  \A u \in Users :
    /\ updateUserBadges(updateUserBadges(users[u])).badges
         = updateUserBadges(users[u]).badges
    /\ PushBadges(PushBadges(users[u])).badges = PushBadges(users[u]).badges
    /\ NoDuplicates(users[u].badges)

\* C21: when an accepted donation is the donor's first ever, or follows the
\* donor's previous donation by more than 90 days, the streak becomes 1 and
\* rewardPoints grows by exactly 100, with no streak bonus.
C21_FreshStreakNoBonus ==
  (/\ event.op \in {"submit", "record"}
   /\ event.apply.user # "none"
   /\ \/ event.apply.before.lastDonation = NoDate
      \/ event.apply.date - event.apply.before.lastDonation > 90) =>
    /\ event.apply.after.streak = 1
    /\ event.apply.after.rewardPoints = event.apply.before.rewardPoints + 100

\* C22: every change of a donation's status, through any status-update
\* operation, appends one statusHistory entry carrying the new status, and
\* no operation removes or rewrites an entry or adds one without a change:
\* the history lists exactly the statuses the donation went through.
C22_StatusHistoryAppendOnly ==
  [][\A i \in 1..Len(donations) :
       IF donations'[i].status # donations[i].status
         THEN donations'[i].statusHistory =
                Append(donations[i].statusHistory, donations'[i].status)
         ELSE donations'[i].statusHistory = donations[i].statusHistory]_vars

\* the statuses of a request that is fulfilled or cancelled
ClosedStatuses == {"fulfilled", "cancelled", "Fulfilled", "Cancelled"}

\* C23: once a blood request is fulfilled or cancelled, a respond call on it
\* does not change the request: its donor-response list, donorsResponded
\* and status stay as they were.
C23_ClosedRequestFrozen ==
  (/\ event.op = "respond"
   /\ event.request \in 1..Len(requests)
   /\ event.before.status \in ClosedStatuses) =>
    requests[event.request] = event.before

\* C24: the startup database connection makes at most 6 connection
\* attempts (1 initial + 5 retries), makes no further attempt after one
\* succeeds, exits the process after the 6th consecutive failure and not
\* before, and always ends either connected or exited.
C24_ConnectBounded ==
  /\ [](/\ server.attempts <= 6
        /\ server.db = "exited" => server.attempts = 6)
  /\ [][/\ server.db = "connected" =>
            (server'.db = "connected" /\ server'.attempts = server.attempts)
        /\ (server.db = "connecting" /\ server.attempts = 6) =>
            server'.db \in {"connecting", "connected", "exited"}]_vars
  /\ <>[](server.db \in {"connected", "exited"})

C24_Witness ==
  /\ server.db = "exited"
  /\ server.attempts = 6
  /\ server.retries = 5

\* C25: donation submission is all-or-nothing: when the handler answers
\* with a failure (validation, ineligibility, or a storage error at any
\* step) no donation has been persisted and the donor's progression and the
\* inventory are as the request found them; when it answers success, the
\* donation, the progression update and the inventory increment have all
\* been applied.
C25_SubmitAllOrNothing ==
  (event.op = "submit" /\ event.resp # "none") =>
    IF event.resp = "201"
      THEN /\ Len(donations) = event.base.donations + 1
           /\ users[event.user].donationCount = event.base.user.donationCount + 1
           /\ event.inv.group # "none"
           /\ inventory[event.inv.group] =
                event.base.inventory[event.inv.group] + event.inv.delta
      ELSE /\ Len(donations) = event.base.donations
           /\ users[event.user] = event.base.user
           /\ inventory = event.base.inventory

\* C26: no operation of a non-admin user (registration, profile update)
\* sets isAdmin to true on any user: a user is an admin only if seeding or
\* an admin-authenticated operation (make-admin, admin user update) made
\* the user one.
C26_NoSelfPromotion ==
  (/\ event.op \in {"register", "profile", "profileAllowed"}
   /\ event.apply.user # "none") =>
    (event.apply.after.isAdmin => event.apply.before.isAdmin)

\* C27: at least one admin user exists, after any sequence and any
\* interleaving of admin user-delete and admin user-update operations.
C27_AdminRemains == AdminCount >= 1

\* C28: the eligibility query agrees with donation submission: at any time
\* and in any reachable state, GET /eligibility reports isEligible = true
\* for a donor if and only if a valid donation submitted by that donor at
\* that time would pass the submission's eligibility check.
C28_EligibilityAgrees ==
  event.op = "eligibility" =>
    (event.check.eligible <=> FindRecent(event.user, now, DonationStatuses) = {})

\* C29: the levelProgress the rewards status endpoint returns for a
\* donation count n and its level equals the levelProgress that donation
\* recording computes and stores for n, and lies in 0..100.
C29_RewardsProgressAgrees ==
  out.op = "rewardsStatus" =>
    /\ out.levelProgress = calculateLevelProgress(arg.n)
    /\ FLeq(Frac(0, 1), out.levelProgress)
    /\ FLeq(out.levelProgress, Frac(100, 1))

\* how often u occurs in the sequence
Occurrences(seq, u) == Cardinality({k \in 1..Len(seq) : seq[k] = u})

\* C30: after chat.markAsRead(u) completes, every message of the chat
\* (including the last one) has u in its readBy list exactly once, and the
\* read marks of other users recorded earlier are still present.
C30_MarkAsReadMarksAll ==
  [][event'.op = "markAsRead" =>
       \A k \in 1..Len(chat'.messages) :
         /\ Occurrences(chat'.messages[k].readBy, event'.user) = 1
         /\ \A v \in Range(chat.messages[k].readBy) :
              v \in Range(chat'.messages[k].readBy)]_vars

\* C10: each donor appears at most once in a request's donor-response list.
C10_DonorAtMostOnce ==
  \A id \in 1..Len(requests) :
    \A k, l \in 1..Len(requests[id].donors) :
      requests[id].donors[k].donor = requests[id].donors[l].donor => k = l

====
